---------------------------- MODULE Spec2Model ----------------------------
(***************************************************************************)
(* Model of scripts/audit_feature.py: the FeatureAuditor (file collector,  *)
(* the four rule checks, the report renderer) and the command-line run     *)
(* that writes docs/documentation/audit-<feature>.md.                      *)
(*                                                                         *)
(* File contents, paths and findings are character strings; the substring  *)
(* tests, case folding, line splitting and the three regular expressions   *)
(* of the source are computed character by character.                      *)
(***************************************************************************)
EXTENDS Integers, Sequences, FiniteSets, TLC

(***************************************************************************)
(* Bounds of the model.                                                    *)
(***************************************************************************)
\* Largest number of files in the feature directory.
MaxFiles == 2
\* Calendar days the clock can show.
MaxDay == 2

(***************************************************************************)
(* Python string primitives.                                               *)
(***************************************************************************)
Ch(s, i) == SubSeq(s, i, i)

\* sub in s
Contains(s, sub) ==
    \E i \in 1..(Len(s) - Len(sub) + 1) : SubSeq(s, i, i + Len(sub) - 1) = sub

\* s.startswith(p)
StartsWith(s, p) == Len(p) <= Len(s) /\ SubSeq(s, 1, Len(p)) = p

\* s.endswith(p)
EndsWith(s, p) == Len(p) <= Len(s) /\ SubSeq(s, Len(s) - Len(p) + 1, Len(s)) = p

\* s.find(sub, from) with 1-based positions; 0 when sub does not occur.
Find(s, sub, from) ==
    LET hits == {i \in from..(Len(s) - Len(sub) + 1) :
                     SubSeq(s, i, i + Len(sub) - 1) = sub}
    IN  IF hits = {} THEN 0 ELSE CHOOSE i \in hits : \A j \in hits : i <= j

UpperLetters == "ABCDEFGHIJKLMNOPQRSTUVWXYZ"
LowerLetters == "abcdefghijklmnopqrstuvwxyz"
Digits == "0123456789"

CharSet(s) == {Ch(s, k) : k \in 1..Len(s)}
UpperSet == CharSet(UpperLetters)
LowerSet == CharSet(LowerLetters)
DigitSet == CharSet(Digits)
\* \s of the re module, over the characters a file read in text mode holds
\* (universal newlines: every line break is "\n").
Whitespace == {" ", "\t", "\n"}

ToLower == [c \in UpperSet |->
               Ch(LowerLetters, CHOOSE k \in 1..26 : Ch(UpperLetters, k) = c)]
ToUpper == [c \in LowerSet |->
               Ch(UpperLetters, CHOOSE k \in 1..26 : Ch(LowerLetters, k) = c)]

\* s.lower(), character by character over s[lo..hi]
LowerAt(s, i) == IF Ch(s, i) \in UpperSet THEN ToLower[Ch(s, i)] ELSE Ch(s, i)
RECURSIVE LowerRange(_, _, _)
LowerRange(s, lo, hi) ==
    IF lo > hi THEN ""
    ELSE IF lo = hi THEN LowerAt(s, lo)
    ELSE LowerRange(s, lo, (lo + hi) \div 2) \o LowerRange(s, (lo + hi) \div 2 + 1, hi)
lower(s) == LowerRange(s, 1, Len(s))

\* First position q >= p whose character is not in class (Len(s)+1 when the
\* run reaches the end): the end of a greedy character-class repetition.
Span(s, p, class) ==
    CHOOSE q \in p..(Len(s) + 1) :
        /\ \A r \in p..(q - 1) : Ch(s, r) \in class
        /\ (q = Len(s) + 1 \/ Ch(s, q) \notin class)

\* s.strip()
Strip(s) ==
    LET a == Span(s, 1, Whitespace)
        keep == {k \in a..Len(s) : Ch(s, k) \notin Whitespace}
        b == IF keep = {} THEN a - 1
             ELSE CHOOSE k \in keep : \A j \in keep : j <= k
    IN  SubSeq(s, a, b)

\* s.splitlines()
RECURSIVE splitlines(_)
splitlines(s) ==
    IF s = "" THEN <<>>
    ELSE LET nl == Find(s, "\n", 1)
         IN  IF nl = 0 THEN <<s>>
             ELSE <<SubSeq(s, 1, nl - 1)>> \o splitlines(SubSeq(s, nl + 1, Len(s)))

\* s.replace("_", " ")
UnderscoreToSpaceAt(s, i) == IF Ch(s, i) = "_" THEN " " ELSE Ch(s, i)
RECURSIVE UnderscoreToSpaceRange(_, _, _)
UnderscoreToSpaceRange(s, lo, hi) ==
    IF lo > hi THEN ""
    ELSE IF lo = hi THEN UnderscoreToSpaceAt(s, lo)
    ELSE UnderscoreToSpaceRange(s, lo, (lo + hi) \div 2)
         \o UnderscoreToSpaceRange(s, (lo + hi) \div 2 + 1, hi)
replace_underscores(s) == UnderscoreToSpaceRange(s, 1, Len(s))

\* s.title(): the first letter of every run of letters in upper case, the
\* rest in lower case.
IsLetter(c) == c \in UpperSet \/ c \in LowerSet
TitleAt(s, i) ==
    LET c == Ch(s, i)
    IN  IF ~IsLetter(c) THEN c
        ELSE IF i > 1 /\ IsLetter(Ch(s, i - 1))
             THEN (IF c \in UpperSet THEN ToLower[c] ELSE c)
             ELSE (IF c \in LowerSet THEN ToUpper[c] ELSE c)
RECURSIVE TitleRange(_, _, _)
TitleRange(s, lo, hi) ==
    IF lo > hi THEN ""
    ELSE IF lo = hi THEN TitleAt(s, lo)
    ELSE TitleRange(s, lo, (lo + hi) \div 2) \o TitleRange(s, (lo + hi) \div 2 + 1, hi)
title(s) == TitleRange(s, 1, Len(s))

\* sep.join(seq[lo..hi])
RECURSIVE JoinRange(_, _, _, _)
JoinRange(sep, seq, lo, hi) ==
    IF lo > hi THEN ""
    ELSE IF lo = hi THEN seq[lo]
    ELSE JoinRange(sep, seq, lo, (lo + hi) \div 2) \o sep
         \o JoinRange(sep, seq, (lo + hi) \div 2 + 1, hi)
join(sep, seq) == JoinRange(sep, seq, 1, Len(seq))

\* os.path.dirname(p)
dirname(p) ==
    LET slashes == {k \in 1..Len(p) : Ch(p, k) = "/"}
    IN  IF slashes = {} THEN ""
        ELSE SubSeq(p, 1, (CHOOSE k \in slashes : \A j \in slashes : j <= k) - 1)

\* Number of the line (1-based) that position p of s lies on.
LineOf(s, p) == 1 + Cardinality({k \in 1..(p - 1) : Ch(s, k) = "\n"})


\* s[i:i+len(sub)] == sub (1-based i), false when the slice runs off the end.
At(s, i, sub) ==
    /\ i >= 1
    /\ i + Len(sub) - 1 <= Len(s)
    /\ SubSeq(s, i, i + Len(sub) - 1) = sub

(***************************************************************************)
(* The regular expressions of the checks.                                  *)
(***************************************************************************)
\* [a-z0-9_]
SnakeTail == LowerSet \cup DigitSet \cup {"_"}
\* [A-Za-z0-9]
Alnum == UpperSet \cup LowerSet \cup DigitSet
\* ['"]
Quotes == {"'", "\""}

\* Position of the first line start at or after pos (re.MULTILINE's ^), 0 when
\* there is none.
NextLineStart(c, pos) ==
    LET starts == {q \in pos..(Len(c) + 1) : q = 1 \/ Ch(c, q - 1) = "\n"}
    IN  IF starts = {} THEN 0 ELSE CHOOSE q \in starts : \A r \in starts : q <= r

\* ^\s*([a-z]+_[a-z0-9_]*)\??\s*:  tried at the line start p. Every repetition
\* is followed by a character outside its class, so the greedy run is the only
\* way to match.
SnakeMatchAt(c, p) ==
    LET a == Span(c, p, Whitespace)
        b == Span(c, a, LowerSet)
        d == Span(c, b + 1, SnakeTail)
        e == IF d <= Len(c) /\ Ch(c, d) = "?" THEN d + 1 ELSE d
        f == Span(c, e, Whitespace)
        ok == /\ b > a
              /\ b <= Len(c)
              /\ Ch(c, b) = "_"
              /\ f <= Len(c)
              /\ Ch(c, f) = ":"
    IN  IF ok THEN [ok |-> TRUE, prop |-> SubSeq(c, a, d - 1), start |-> a, end |-> f]
        ELSE [ok |-> FALSE, prop |-> "", start |-> 0, end |-> 0]

\* re.findall(r'^\s*([a-z]+_[a-z0-9_]*)\??\s*:', content, re.MULTILINE) from
\* position pos on: the captured names in match order, each with the line its
\* name stands on.
RECURSIVE SnakeProps(_, _)
SnakeProps(c, pos) ==
    LET p == NextLineStart(c, pos)
    IN  IF p = 0 THEN <<>>
        ELSE LET m == SnakeMatchAt(c, p)
             IN  IF m.ok
                 THEN <<[prop |-> m.prop, line |-> LineOf(c, m.start)]>>
                      \o SnakeProps(c, m.end + 1)
                 ELSE SnakeProps(c, p + 1)

Keywords == <<"interface", "type", "class">>

\* (interface|type|class) ([A-Za-z0-9]+) tried at position j.
KeywordMatchAt(c, j) ==
    LET ks == {k \in 1..Len(Keywords) : At(c, j, Keywords[k] \o " ")}
    IN  IF ks = {} THEN [ok |-> FALSE, kind |-> "", name |-> "", end |-> 0]
        ELSE LET k == CHOOSE k \in ks : TRUE
                 n == j + Len(Keywords[k]) + 1
                 e == Span(c, n, Alnum)
             IN  IF e > n
                 THEN [ok |-> TRUE, kind |-> Keywords[k],
                       name |-> SubSeq(c, n, e - 1), end |-> e - 1]
                 ELSE [ok |-> FALSE, kind |-> "", name |-> "", end |-> 0]

\* (export )?(interface|type|class) ([A-Za-z0-9]+) tried at position i.
EntityMatchAt(c, i) ==
    IF At(c, i, "export ") /\ KeywordMatchAt(c, i + 7).ok
    THEN KeywordMatchAt(c, i + 7)
    ELSE KeywordMatchAt(c, i)

\* re.findall(r'(export )?(interface|type|class) ([A-Za-z0-9]+)', content)
\* from position pos on: (kind, name) of every match, left to right.
RECURSIVE EntityMatches(_, _)
EntityMatches(c, pos) ==
    LET hits == {i \in pos..Len(c) : EntityMatchAt(c, i).ok}
    IN  IF hits = {} THEN <<>>
        ELSE LET i == CHOOSE i \in hits : \A j \in hits : i <= j
                 m == EntityMatchAt(c, i)
             IN  <<[kind |-> m.kind, name |-> m.name]>>
                 \o EntityMatches(c, m.end + 1)

\* re.search(r'from [\'"]([^\'"]+)[\'"]', line): the captured path of the
\* leftmost match, and whether there is one.
ImportPath(line) ==
    LET closing(i) == CHOOSE q \in (i + 6)..(Len(line) + 1) :
                          /\ \A r \in (i + 6)..(q - 1) : Ch(line, r) \notin Quotes
                          /\ (q = Len(line) + 1 \/ Ch(line, q) \in Quotes)
        hits == {i \in 1..Len(line) :
                    /\ At(line, i, "from ")
                    /\ i + 5 <= Len(line)
                    /\ Ch(line, i + 5) \in Quotes
                    /\ closing(i) > i + 6
                    /\ closing(i) <= Len(line)}
    IN  IF hits = {} THEN [found |-> FALSE, path |-> ""]
        ELSE LET i == CHOOSE i \in hits : \A j \in hits : i <= j
             IN  [found |-> TRUE, path |-> SubSeq(line, i + 6, closing(i) - 1)]

\* path_str.split("features/")[1].split("/")[0]
TargetFeatureFirstSegment(path_str) == SubSeq(path_str, 1, Find(path_str, "/", 1) - 1)
TargetFeature(path_str) ==
    LET k == Find(path_str, "features/", 1)
        rest == SubSeq(path_str, k + 9, Len(path_str))
        sl == Find(rest, "/", 1)
    IN  IF sl = 0 THEN rest ELSE SubSeq(rest, 1, sl - 1)

(***************************************************************************)
(* The inputs: feature names, and the files a feature directory may hold.  *)
(***************************************************************************)
FeatureNames == {"auth", "billing"}

DomainTypes == "type U = {\n  user_id: T;\n  made_at?\n    : D;\n  ok: T;\n}"
Imports ==
    "import a from \"@/features/billing/a\";\n import b from '@/features/shared/b';\nexport * from \"@/features/billing/z\";\nimport c from \"../../features/auth/c\";"
FloatAmount == "type C = number;\nlet amount = 1.5; // Float"
FloatOnly == "let r: number; // double"
FinancialOnly == "class Balance { c = Number(r); } // float"
HardDelete == "db.run(\"DELETE FROM t\");"
SoftDelete == "set({ deleted_at: now }); // delete"
AuthCall == "supabase.auth.signIn(c);"
WatchForm ==
    "import t from \"@/lib/data/data-transformers\";\nimport f from \"react-hook-form\";\nlet v = watch(\"n\");"

Contents == {DomainTypes, Imports, FloatAmount, FloatOnly, FinancialOnly,
             HardDelete, SoftDelete, AuthCall, WatchForm}

\* Places under features/<name>/: the sub-directory ("" for the feature's own
\* directory) and the file name.
SourcePlaces == {[dir |-> "domain", name |-> "types.ts"],
                 [dir |-> "repository", name |-> "repo.tsx"]}

\* A file the extension filter leaves out.
Readme == [dir |-> "", name |-> "README.md", content |-> "delete supabase.auth.x"]

DiskFiles ==
    {[dir |-> p.dir, name |-> p.name, content |-> c] : p \in SourcePlaces, c \in Contents}
    \cup {Readme}

\* os.walk is top-down: a directory's own files come before those of its
\* sub-directories, and the files of one directory come together.
WalkOrdered(t) ==
    /\ \A i, j \in 1..Len(t) : i < j /\ t[j].dir = "" => t[i].dir = ""
    /\ \A i, j, k \in 1..Len(t) :
           i < j /\ j < k /\ t[i].dir = t[k].dir => t[j].dir = t[i].dir

Trees ==
    {t \in UNION {[1..n -> DiskFiles] : n \in 0..MaxFiles} :
        /\ \A i, j \in 1..Len(t) :
               i # j => <<t[i].dir, t[i].name>> # <<t[j].dir, t[j].name>>
        /\ WalkOrdered(t)}

(***************************************************************************)
(* FeatureAuditor                                                          *)
(***************************************************************************)
VARIABLES
    feature_name,        \* sys.argv[1]
    dir_state,           \* features/<feature_name>: "present", "missing", "unreadable"
    tree,                \* the files under it, in os.walk order
    today,               \* the day datetime.date.today() returns
    docs,                \* docs/documentation/audit-<feature_name>.md, NoFile when absent
    pc,                  \* position of the current run
    ran,                 \* the checks generate_markdown has run, in order
    files,               \* self.files
    issues,              \* self.issues
    stats,               \* self.stats
    mandate_checks,      \* self.mandate_checks
    performance_checks,  \* self.performance_checks
    entities,            \* generate_markdown's entities
    transformers,        \* generate_markdown's transformers
    report               \* generate_markdown's result

vars == <<feature_name, dir_state, tree, today, docs, pc, ran, files, issues,
          stats, mandate_checks, performance_checks, entities, transformers, report>>

\* The output file holds at most one text: <<>> when it does not exist.
NoFile == <<>>

RECURSIVE Flatten(_)
Flatten(ss) == IF ss = <<>> THEN <<>> ELSE Head(ss) \o Flatten(Tail(ss))

\* A finding: msg is the string the check appends to self.issues; check, sub,
\* file and line record the check, the sub-check, the index in self.files and
\* the line (0 when the check has none) of the loop iteration that appended it.
Finding(msg, check, sub, file, line) ==
    [msg |-> msg, check |-> check, sub |-> sub, file |-> file, line |-> line]

Messages(fs) == [i \in 1..Len(fs) |-> fs[i].msg]

\* str(path.relative_to(PROJECT_ROOT))
RelPath(feature, d) ==
    "features/" \o feature \o (IF d.dir = "" THEN "" ELSE "/" \o d.dir) \o "/" \o d.name

\* file.endswith((".ts", ".tsx"))
IsSourceFile(name) == EndsWith(name, ".ts") \/ EndsWith(name, ".tsx")

\* The dictionary scan_files appends for one file.
FileEntry(feature, d) ==
    [rel_path |-> RelPath(feature, d),
     name |-> d.name,
     content |-> d.content,
     lines |-> Len(splitlines(d.content)),
     line_content |-> splitlines(d.content)]

\* self.files after scan_files has walked the entries t.
RECURSIVE Scanned(_, _)
Scanned(feature, t) ==
    IF t = <<>> THEN <<>>
    ELSE (IF IsSourceFile(Head(t).name) THEN <<FileEntry(feature, Head(t))>> ELSE <<>>)
         \o Scanned(feature, Tail(t))

\* __init__
InitStats ==
    [entity_registry |-> "PASS", dependency_manifest |-> "PASS",
     sacred_mandate |-> "PASS", performance |-> "PASS", naming |-> "PASS",
     feature_bleed |-> <<>>]
InitMandateChecks ==
    [integer_cents |-> "N/A", sync_integrity |-> "N/A", soft_deletes |-> "N/A",
     auth_abstraction |-> "N/A"]
InitPerformanceChecks == [react_compiler |-> "PASS", re_render |-> "PASS"]

(***************************************************************************)
(* The checks, as functions of self.files and self.feature_name.           *)
(***************************************************************************)
\* audit_variable_entity_registry: naming_violations
NamingViolationsInAnyFile(fl, k) ==
    LET props == SnakeProps(fl[k].content, 1)
    IN  [i \in 1..Len(props) |->
            Finding("Snake_case property '" \o props[i].prop
                        \o "' in domain file " \o fl[k].rel_path,
                    "naming", "naming", k, props[i].line)]
NamingViolationsIn(fl, k) ==
    IF Contains(fl[k].rel_path, "domain")
    THEN LET props == SnakeProps(fl[k].content, 1)
         IN  [i \in 1..Len(props) |->
                 Finding("Snake_case property '" \o props[i].prop
                             \o "' in domain file " \o fl[k].rel_path,
                         "naming", "naming", k, props[i].line)]
    ELSE <<>>
NamingViolations(fl) == Flatten([k \in 1..Len(fl) |-> NamingViolationsIn(fl, k)])

\* audit_variable_entity_registry: entities
EntitiesIn(fl, k) ==
    LET ms == EntityMatches(fl[k].content, 1)
    IN  [i \in 1..Len(ms) |->
            [name |-> ms[i].name, kind |-> ms[i].kind, file |-> fl[k].rel_path]]
Entities(fl) == Flatten([k \in 1..Len(fl) |-> EntitiesIn(fl, k)])

\* audit_dependencies: the line at enumerate index i of file k
IsImportLine(line) == StartsWith(Strip(line), "import ")

IsFeaturePath(path_str) ==
    StartsWith(path_str, "@/features/") \/ StartsWith(path_str, "../../features/")

FeatureBleedAt(fl, feature, k, i) ==
    LET line == fl[k].line_content[i + 1]
        m == ImportPath(line)
    IN  IF /\ IsImportLine(line)
           /\ m.found
           /\ IsFeaturePath(m.path)
           /\ TargetFeature(m.path) # feature
           /\ TargetFeature(m.path) # "shared"
        THEN <<Finding("Import from " \o TargetFeature(m.path) \o " in "
                           \o fl[k].rel_path \o ":" \o ToString(i + 1),
                       "dependency", "dependency", k, i + 1)>>
        ELSE <<>>

FeatureBleedIn(fl, feature, k) ==
    Flatten([j \in 1..Len(fl[k].line_content) |-> FeatureBleedAt(fl, feature, k, j - 1)])
FeatureBleed(fl, feature) ==
    Flatten([k \in 1..Len(fl) |-> FeatureBleedIn(fl, feature, k)])

TransformerAt(fl, k, i) ==
    LET line == fl[k].line_content[i + 1]
        m == ImportPath(line)
    IN  IF /\ IsImportLine(line)
           /\ m.found
           /\ (Contains(m.path, "types/data-transformers")
               \/ Contains(m.path, "data/data-transformers"))
        THEN <<"Uses data-transformers in " \o fl[k].rel_path \o ":" \o ToString(i + 1)>>
        ELSE <<>>
Transformers(fl) ==
    Flatten([k \in 1..Len(fl) |->
        Flatten([j \in 1..Len(fl[k].line_content) |-> TransformerAt(fl, k, j - 1)])])

\* audit_sacred_mandate: integer cents
IsFinancial(content) ==
    LET low == lower(content)
    IN  \/ Contains(low, "balance")
        \/ Contains(low, "amount")
        \/ Contains(low, "price")

HasFinancial(fl) == \E k \in 1..Len(fl) : IsFinancial(fl[k].content)

FloatViolationInAnyFile(fl, k) ==
    IF /\ Contains(fl[k].content, "number")
       /\ LET low == lower(fl[k].content)
          IN  Contains(low, "float") \/ Contains(low, "double")
    THEN <<Finding("Potential float usage in " \o fl[k].rel_path,
                   "sacred_mandate", "integer_cents", k, 0)>>
    ELSE <<>>
FloatViolationIn(fl, k) ==
    IF /\ IsFinancial(fl[k].content)
       /\ Contains(fl[k].content, "number")
       /\ LET low == lower(fl[k].content)
          IN  Contains(low, "float") \/ Contains(low, "double")
    THEN <<Finding("Potential float usage in " \o fl[k].rel_path,
                   "sacred_mandate", "integer_cents", k, 0)>>
    ELSE <<>>
FloatViolations(fl) == Flatten([k \in 1..Len(fl) |-> FloatViolationIn(fl, k)])

\* audit_sacred_mandate: soft deletes
DeleteViolationIn(fl, k) ==
    IF /\ Contains(lower(fl[k].content), "delete")
       /\ ~Contains(fl[k].content, "deleted_at")
       /\ ~Contains(fl[k].content, "deletedAt")
       /\ Contains(fl[k].rel_path, "repository")
    THEN <<Finding("Potential hard delete verification needed in " \o fl[k].rel_path,
                   "sacred_mandate", "soft_deletes", k, 0)>>
    ELSE <<>>
DeleteViolations(fl) == Flatten([k \in 1..Len(fl) |-> DeleteViolationIn(fl, k)])

\* has_delete is set only where a violation is appended.
HasDelete(fl) == \E k \in 1..Len(fl) : DeleteViolationIn(fl, k) # <<>>

\* audit_sacred_mandate: auth abstraction
AuthViolationInAnyFeature(fl, feature, k) ==
    IF Contains(fl[k].content, "supabase.auth.")
    THEN <<Finding("Direct supabase.auth usage in " \o fl[k].rel_path,
                   "sacred_mandate", "auth_abstraction", k, 0)>>
    ELSE <<>>
AuthViolationIn(fl, feature, k) ==
    IF Contains(fl[k].content, "supabase.auth.") /\ feature # "auth"
    THEN <<Finding("Direct supabase.auth usage in " \o fl[k].rel_path,
                   "sacred_mandate", "auth_abstraction", k, 0)>>
    ELSE <<>>
AuthViolations(fl, feature) ==
    Flatten([k \in 1..Len(fl) |-> AuthViolationIn(fl, feature, k)])

\* audit_sacred_mandate: what the three self.issues.extend calls append, in
\* the order of the calls
MandateIssuesByFile(fl, feature) ==
    Flatten([k \in 1..Len(fl) |->
        FloatViolationIn(fl, k) \o DeleteViolationIn(fl, k)
        \o AuthViolationIn(fl, feature, k)])
MandateIssues(fl, feature) ==
    FloatViolations(fl) \o DeleteViolations(fl) \o AuthViolations(fl, feature)

\* audit_performance
WatchViolationIn(fl, k) ==
    IF /\ Contains(fl[k].content, "watch(")
       /\ ~Contains(fl[k].content, "useWatch")
       /\ Contains(fl[k].content, "react-hook-form")
    THEN <<Finding("Usage of watch() instead of useWatch in " \o fl[k].rel_path,
                   "performance", "performance", k, 0)>>
    ELSE <<>>
WatchViolations(fl) == Flatten([k \in 1..Len(fl) |-> WatchViolationIn(fl, k)])

(***************************************************************************)
(* generate_markdown: the report text.                                     *)
(***************************************************************************)
\* The backquote character of the report's Markdown. A TLA+ string cannot hold
\* it; the report text of the model shows an apostrophe in its place.
Backquote == "'"

\* datetime.date.today().isoformat(), the clock showing a day of January 2026
IsoFormat(day) == "2026-01-" \o (IF day < 10 THEN "0" ELSE "") \o ToString(day)

\* The keys of files_by_folder in insertion order.
RECURSIVE Folders(_, _)
Folders(fl, seen) ==
    IF fl = <<>> THEN <<>>
    ELSE LET folder == dirname(Head(fl).rel_path)
         IN  IF folder \in seen THEN Folders(Tail(fl), seen)
             ELSE <<folder>> \o Folders(Tail(fl), seen \cup {folder})

FolderTable(fl, folder) ==
    LET fs == SelectSeq(fl, LAMBDA g : dirname(g.rel_path) = folder)
    IN
    <<"#### " \o folder, "| File | Lines |", "|------|-------|">>
    \o [i \in 1..Len(fs) |->
           LET f == fs[i]
           IN  "| " \o Backquote \o f.name \o Backquote \o " | "
               \o ToString(f.lines) \o " |"]
    \o <<"">>

\* self.mandate_checks.items(), in the order __init__ inserts the keys
MandateKeys == <<"integer_cents", "sync_integrity", "soft_deletes", "auth_abstraction">>

MandateSection(mc, iss, check) ==
    <<"### 3.x " \o title(replace_underscores(check)),
      "**Status: " \o mc[check] \o "**">>
    \o (IF mc[check] = "FAIL"
        THEN LET relevant == SelectSeq(iss, LAMBDA m : Contains(lower(m), check))
             IN  [i \in 1..Len(relevant) |-> "- " \o relevant[i]]
        ELSE <<>>)
    \o <<"">>

\* The lines of out, joined by "\n" (lines 194-296).
RenderLines(feature, day, fl, iss, st, mc, pf, ents, trans) ==
    <<"# Composable Manifest: features/" \o feature,
      "",
      "> **Generated**: " \o IsoFormat(day),
      "> **Auditor**: Automated Construction Agent",
      "> **Scope**: " \o Backquote \o "/features/" \o feature \o "/" \o Backquote
          \o " folder",
      "",
      "---",
      "",
      "## Executive Summary",
      "",
      "| Category | Status | Notes |",
      "|----------|--------|-------|",
      "| Variable & Entity Registry | " \o st.naming \o " | "
          \o (IF st.naming = "FAIL" THEN "Issues found" ELSE "Clean") \o " |",
      "| Dependency Manifest | " \o st.dependency_manifest \o " | "
          \o ToString(Len(st.feature_bleed)) \o " violations |",
      "| Sacred Mandate | " \o st.sacred_mandate \o " | Auth: "
          \o mc.auth_abstraction \o " |",
      "| Performance | " \o st.performance \o " | Watch Usage: "
          \o pf.react_compiler \o " |",
      "">>
    \o (IF iss # <<>>
        THEN <<"**Issues Found:**">> \o [i \in 1..Len(iss) |-> "- " \o iss[i]]
        ELSE <<"**Overall Result: PASSED**">>)
    \o <<"", "---", "",
         "## 1. Variable & Entity Registry",
         "",
         "### 1.1 Feature File Inventory",
         "**Total Files**: " \o ToString(Len(fl)),
         "">>
    \o (LET folders == Folders(fl, {})
        IN  Flatten([i \in 1..Len(folders) |-> FolderTable(fl, folders[i])]))
    \o <<"### 1.2 Entity Inventory", "| Name | Kind | File |", "|------|------|------|">>
    \o [i \in 1..Len(ents) |->
           "| " \o Backquote \o ents[i].name \o Backquote \o " | " \o ents[i].kind
               \o " | " \o Backquote \o ents[i].file \o Backquote \o " |"]
    \o <<"", "## 2. Dependency Manifest", "", "### 2.1 Feature Bleed Check">>
    \o (IF st.feature_bleed # <<>>
        THEN <<"**Result: FAIL**", "">>
             \o [i \in 1..Len(st.feature_bleed) |-> "- " \o st.feature_bleed[i]]
        ELSE <<"**Result: PASS**", "No prohibited cross-feature imports detected.">>)
    \o <<"", "### 2.2 Transformer Usage">>
    \o (IF trans # <<>>
        THEN <<"| File | Usage |", "|------|-------|">>
             \o [i \in 1..Len(trans) |-> "| " \o trans[i] \o " |"]
        ELSE <<"No explicit transformer imports found.">>)
    \o <<"", "## 3. Sacred Mandate Compliance", "">>
    \o Flatten([i \in 1..Len(MandateKeys) |-> MandateSection(mc, iss, MandateKeys[i])])
    \o <<"## 4. Performance & Scalability", "", "### 4.1 React Compiler Check",
         "**Status: " \o pf.react_compiler \o "**">>
    \o (IF pf.react_compiler = "FAIL"
        THEN LET relevant == SelectSeq(iss, LAMBDA m : Contains(lower(m), "watch"))
             IN  [i \in 1..Len(relevant) |-> "- " \o relevant[i]]
        ELSE <<>>)

Render(feature, day, fl, iss, st, mc, pf, ents, trans) ==
    join("\n", RenderLines(feature, day, fl, iss, st, mc, pf, ents, trans))

(***************************************************************************)
(* The run: python audit_feature.py <feature_name>                         *)
(***************************************************************************)
Init ==
    /\ feature_name \in FeatureNames
    /\ dir_state \in {"present", "missing", "unreadable"}
    /\ tree \in Trees
    /\ (dir_state # "present" => tree = <<>>)
    /\ today = 1
    /\ docs = NoFile
    /\ pc = "scan_files"
    /\ ran = <<>>
    /\ files = <<>>
    /\ issues = <<>>
    /\ stats = InitStats
    /\ mandate_checks = InitMandateChecks
    /\ performance_checks = InitPerformanceChecks
    /\ entities = <<>>
    /\ transformers = <<>>
    /\ report = ""

Ran(check) == \E i \in 1..Len(ran) : ran[i] = check

\* os.walk reports no error (onerror is None): a directory it cannot list
\* yields nothing. open() raises on a file it cannot read, which ends the run.
scan_files ==
    /\ pc = "scan_files"
    /\ IF dir_state # "present"
       THEN /\ files' = <<>>
            /\ pc' = "generate_markdown"
       ELSE \E bad \in 0..Len(tree) :
               IF bad # 0 /\ IsSourceFile(tree[bad].name)
               THEN /\ files' = Scanned(feature_name, SubSeq(tree, 1, bad - 1))
                    /\ pc' = "fatal"
               ELSE /\ files' = Scanned(feature_name, tree)
                    /\ pc' = "generate_markdown"
    /\ UNCHANGED <<feature_name, dir_state, tree, today, docs, ran, issues, stats,
                   mandate_checks, performance_checks, entities, transformers, report>>

audit_variable_entity_registry ==
    /\ pc = "generate_markdown"
    /\ ~Ran("naming")
    /\ LET naming_violations == NamingViolations(files)
       IN  /\ stats' = IF naming_violations # <<>>
                       THEN [stats EXCEPT !.naming = "FAIL"]
                       ELSE stats
           /\ issues' = issues \o naming_violations
    /\ entities' = Entities(files)
    /\ ran' = Append(ran, "naming")
    /\ UNCHANGED <<feature_name, dir_state, tree, today, docs, pc, files,
                   mandate_checks, performance_checks, transformers, report>>

audit_dependencies ==
    /\ pc = "generate_markdown"
    /\ ~Ran("dependency")
    /\ LET feature_bleed == FeatureBleed(files, feature_name)
       IN  /\ stats' = IF feature_bleed # <<>>
                       THEN [stats EXCEPT !.dependency_manifest = "FAIL",
                                          !.feature_bleed = Messages(feature_bleed)]
                       ELSE stats
           /\ issues' = issues \o feature_bleed
    /\ transformers' = Transformers(files)
    /\ ran' = Append(ran, "dependency")
    /\ UNCHANGED <<feature_name, dir_state, tree, today, docs, pc, files,
                   mandate_checks, performance_checks, entities, report>>

audit_sacred_mandate ==
    /\ pc = "generate_markdown"
    /\ ~Ran("sacred_mandate")
    /\ LET float_violations == FloatViolations(files)
           delete_violations == DeleteViolations(files)
           auth_violations == AuthViolations(files, feature_name)
       IN  /\ mandate_checks' =
                 [mandate_checks EXCEPT
                    !.integer_cents =
                        IF HasFinancial(files)
                        THEN (IF float_violations = <<>> THEN "PASS" ELSE "FAIL")
                        ELSE @,
                    !.soft_deletes =
                        IF HasDelete(files)
                        THEN (IF delete_violations = <<>> THEN "PASS" ELSE "WARNING")
                        ELSE @,
                    !.auth_abstraction =
                        IF auth_violations # <<>> THEN "FAIL" ELSE "PASS"]
           /\ issues' = issues \o MandateIssues(files, feature_name)
    /\ ran' = Append(ran, "sacred_mandate")
    /\ UNCHANGED <<feature_name, dir_state, tree, today, docs, pc, files, stats,
                   performance_checks, entities, transformers, report>>

audit_performance_on_any_issue ==
    /\ pc = "generate_markdown"
    /\ ~Ran("performance")
    /\ LET watch_violations == WatchViolations(files)
       IN  /\ performance_checks' =
                 IF issues # <<>>
                 THEN [performance_checks EXCEPT !.react_compiler = "FAIL"]
                 ELSE performance_checks
           /\ issues' = issues \o watch_violations
    /\ ran' = Append(ran, "performance")
    /\ UNCHANGED <<feature_name, dir_state, tree, today, docs, pc, files, stats,
                   mandate_checks, entities, transformers, report>>
audit_performance ==
    /\ pc = "generate_markdown"
    /\ ~Ran("performance")
    /\ LET watch_violations == WatchViolations(files)
       IN  /\ performance_checks' =
                 IF watch_violations # <<>>
                 THEN [performance_checks EXCEPT !.react_compiler = "FAIL"]
                 ELSE performance_checks
           /\ issues' = issues \o watch_violations
    /\ ran' = Append(ran, "performance")
    /\ UNCHANGED <<feature_name, dir_state, tree, today, docs, pc, files, stats,
                   mandate_checks, entities, transformers, report>>

\* The four calls of generate_markdown, in its order (lines 189-192).
RunChecks ==
    \/ ran = <<>> /\ audit_variable_entity_registry
    \/ ran = <<"naming">> /\ audit_dependencies
    \/ ran = <<"naming", "dependency">> /\ audit_sacred_mandate
    \/ ran = <<"naming", "dependency", "sacred_mandate">> /\ audit_performance

\* The rest of generate_markdown: the report text.
render ==
    /\ pc = "generate_markdown"
    /\ Len(ran) = 4
    /\ report' = Render(feature_name, today, files, Messages(issues), stats,
                        mandate_checks, performance_checks, entities, transformers)
    /\ pc' = "write"
    /\ UNCHANGED <<feature_name, dir_state, tree, today, docs, ran, files, issues,
                   stats, mandate_checks, performance_checks, entities, transformers>>

\* The output file after open(output_path, "w") and f.write(text): mode "w"
\* truncates what the file held.
AppendedFile(old, text) == IF old = NoFile THEN <<text>> ELSE <<old[1] \o text>>
WrittenFile(old, text) == <<text>>

\* open(output_path, "w") and f.write(report); open raises when the documentation
\* directory cannot be written, which ends the run.
write ==
    /\ pc = "write"
    /\ \E writable \in BOOLEAN :
          IF writable
          THEN docs' = WrittenFile(docs, report) /\ pc' = "done"
          ELSE docs' = docs /\ pc' = "fatal"
    /\ UNCHANGED <<feature_name, dir_state, tree, today, ran, files, issues, stats,
                   mandate_checks, performance_checks, entities, transformers, report>>

Next == scan_files \/ RunChecks \/ render \/ write

Spec == Init /\ [][Next]_vars

(***************************************************************************)
(* The four checks called in any order.                                    *)
(***************************************************************************)
AnyOrder ==
    \/ audit_variable_entity_registry
    \/ audit_dependencies
    \/ audit_sacred_mandate
    \/ audit_performance

NextAnyOrder == scan_files \/ AnyOrder

SpecAnyOrder == Init /\ [][NextAnyOrder]_vars

(***************************************************************************)
(* The script run again on the unchanged tree, on the same day or later.   *)
(***************************************************************************)
\* A day passes between two runs.
tick ==
    /\ pc = "done"
    /\ today < MaxDay
    /\ today' = today + 1
    /\ UNCHANGED <<feature_name, dir_state, tree, docs, pc, ran, files, issues, stats,
                   mandate_checks, performance_checks, entities, transformers, report>>

\* A new process: FeatureAuditor(feature_name) on the same tree.
rerun ==
    /\ pc = "done"
    /\ pc' = "scan_files"
    /\ ran' = <<>>
    /\ files' = <<>>
    /\ issues' = <<>>
    /\ stats' = InitStats
    /\ mandate_checks' = InitMandateChecks
    /\ performance_checks' = InitPerformanceChecks
    /\ entities' = <<>>
    /\ transformers' = <<>>
    /\ report' = ""
    /\ UNCHANGED <<feature_name, dir_state, tree, today, docs>>

NextRerun == Next \/ tick \/ rerun

SpecRerun == Init /\ [][NextRerun]_vars

(***************************************************************************)
(* The properties.                                                         *)
(***************************************************************************)
\* The findings list, as the strings the report shows.
IssueMessages == Messages(issues)

MessagesWithPrefix(prefix) ==
    SelectSeq(IssueMessages, LAMBDA m : StartsWith(m, prefix))

IssuesOf(check) == SelectSeq(issues, LAMBDA f : f.check = check)

FileIndexes == 1..Len(files)

\* content mentions word, whatever the case of its letters
Mentions(content, word) == Contains(lower(content), word)

AllChecksRan == Len(ran) = 4

-----------------------------------------------------------------------------
\* C1: once the four checks have run, each category verdict (naming,
\* dependency manifest, sacred mandate, performance) is FAIL if and only if
\* the category's check recorded at least one finding.
C1_CategoryVerdictIffFinding ==
    AllChecksRan =>
        /\ (stats.naming = "FAIL" <=> IssuesOf("naming") # <<>>)
        /\ (stats.dependency_manifest = "FAIL" <=> IssuesOf("dependency") # <<>>)
        /\ (stats.sacred_mandate = "FAIL" <=> IssuesOf("sacred_mandate") # <<>>)
        /\ (stats.performance = "FAIL" <=> IssuesOf("performance") # <<>>)

-----------------------------------------------------------------------------
\* The files the soft-delete guard is about: they mention "delete" and have
\* "repository" in their relative path.
DeleteCandidates ==
    {k \in FileIndexes :
        Mentions(files[k].content, "delete") /\ Contains(files[k].rel_path, "repository")}

HasDeleteMarker(k) ==
    Contains(files[k].content, "deleted_at") \/ Contains(files[k].content, "deletedAt")

\* C2: after audit_sacred_mandate the soft-delete verdict is N/A when no file
\* mentions "delete" under a repository path, WARNING when one of those files
\* has neither marker, and PASS when every one of them has a marker.
C2_SoftDeleteVerdict ==
    Ran("sacred_mandate") =>
        mandate_checks.soft_deletes =
            IF DeleteCandidates = {} THEN "N/A"
            ELSE IF \E k \in DeleteCandidates : ~HasDeleteMarker(k) THEN "WARNING"
            ELSE "PASS"

-----------------------------------------------------------------------------
IsFinancialFile(k) ==
    \/ Mentions(files[k].content, "balance")
    \/ Mentions(files[k].content, "amount")
    \/ Mentions(files[k].content, "price")

UsesFloatingNumber(k) ==
    /\ Contains(files[k].content, "number")
    /\ (Mentions(files[k].content, "float") \/ Mentions(files[k].content, "double"))

FloatMessage(k) == "Potential float usage in " \o files[k].rel_path

\* The integer-cents verdict and findings when the files of flagged are the
\* ones to flag.
IntegerCentsOutcome(flagged) ==
    /\ mandate_checks.integer_cents =
           IF ~\E k \in FileIndexes : IsFinancialFile(k) THEN "N/A"
           ELSE IF flagged # {} THEN "FAIL"
           ELSE "PASS"
    /\ \A k \in FileIndexes :
           Len(SelectSeq(IssueMessages, LAMBDA m : m = FloatMessage(k)))
               = IF k \in flagged THEN 1 ELSE 0

\* C3 as stated: once a file of the feature mentions a financial term, every
\* file holding "number" together with "float" or "double" is flagged, and the
\* verdict is FAIL exactly when a file is flagged.
C3_FlagsAnyFileOfFinancialFeature ==
    Ran("sacred_mandate") =>
        IntegerCentsOutcome({k \in FileIndexes : UsesFloatingNumber(k)})

\* C3 amended: only a file that itself mentions a financial term is flagged:
\* the verdict is N/A without a financial file, FAIL exactly when a financial
\* file holds "number" (as written, in lower case) together with "float" or
\* "double" (in any case), one finding per such file, and PASS otherwise.
C3_FlagsFinancialFilesOnly ==
    Ran("sacred_mandate") =>
        IntegerCentsOutcome({k \in FileIndexes :
                                IsFinancialFile(k) /\ UsesFloatingNumber(k)})

\* A financial file and a float-using file that is not financial: the verdict
\* is PASS.
C3_Witness ==
    /\ Ran("sacred_mandate")
    /\ \E k \in FileIndexes : IsFinancialFile(k)
    /\ \E k \in FileIndexes : UsesFloatingNumber(k) /\ ~IsFinancialFile(k)
    /\ mandate_checks.integer_cents = "PASS"

-----------------------------------------------------------------------------
\* The segment of path that follows prefix, up to the next "/".
SegmentAfter(path, prefix) ==
    LET rest == SubSeq(path, Len(prefix) + 1, Len(path))
        cut == Find(rest, "/", 1)
    IN  IF cut = 0 THEN rest ELSE SubSeq(rest, 1, cut - 1)

FeaturePrefixes == {"@/features/", "../../features/"}

\* Line n of file k is an import line whose quoted module path points into
\* another feature than the audited one and "shared".
IsForeignImport(k, n) ==
    LET line == files[k].line_content[n]
        path == ImportPath(line).path
    IN  /\ IsImportLine(line)
        /\ ImportPath(line).found
        /\ \E prefix \in FeaturePrefixes :
               /\ StartsWith(path, prefix)
               /\ SegmentAfter(path, prefix) \notin {feature_name, "shared"}

ForeignImportMessage(k, n) ==
    LET path == ImportPath(files[k].line_content[n]).path
        prefix == CHOOSE q \in FeaturePrefixes : StartsWith(path, q)
    IN  "Import from " \o SegmentAfter(path, prefix) \o " in " \o files[k].rel_path
            \o ":" \o ToString(n)

\* One message per foreign import line, by file and by line.
ExpectedFeatureBleed ==
    Flatten([k \in FileIndexes |->
        Flatten([n \in 1..Len(files[k].line_content) |->
            IF IsForeignImport(k, n) THEN <<ForeignImportMessage(k, n)>> ELSE <<>>])])

-----------------------------------------------------------------------------
UsesAuthClient(k) == Contains(files[k].content, "supabase.auth.")

AuthMessage(k) == "Direct supabase.auth usage in " \o files[k].rel_path

\* C5: after audit_sacred_mandate the auth-abstraction verdict is never N/A;
\* it is PASS for the feature "auth"; for any other feature it is FAIL exactly
\* when a file holds "supabase.auth.", with one finding per such file, and
\* PASS otherwise.
C5_AuthAbstractionVerdict ==
    Ran("sacred_mandate") =>
        /\ mandate_checks.auth_abstraction \in {"PASS", "FAIL"}
        /\ feature_name = "auth" => mandate_checks.auth_abstraction = "PASS"
        /\ feature_name # "auth" =>
               /\ mandate_checks.auth_abstraction = "FAIL"
                      <=> \E k \in FileIndexes : UsesAuthClient(k)
               /\ \A k \in FileIndexes :
                      Len(SelectSeq(IssueMessages, LAMBDA m : m = AuthMessage(k)))
                          = IF UsesAuthClient(k) THEN 1 ELSE 0

\* The feature "auth" calling the auth client itself.
C5_Witness ==
    /\ Ran("sacred_mandate")
    /\ feature_name = "auth"
    /\ \E k \in FileIndexes : UsesAuthClient(k)
    /\ mandate_checks.auth_abstraction = "PASS"

-----------------------------------------------------------------------------
IsSnakeName(name) ==
    \E u \in 1..(Len(name) - 1) :
        /\ \A i \in 1..u : Ch(name, i) \in LowerSet
        /\ Ch(name, u + 1) = "_"
        /\ \A i \in (u + 2)..Len(name) : Ch(name, i) \in SnakeTail

\* text is blanks followed by a colon
BlanksThenColon(text) ==
    \E j \in 1..Len(text) :
        /\ Ch(text, j) = ":"
        /\ \A i \in 1..(j - 1) : Ch(text, i) \in Whitespace

\* The text of content from the start of its line n to its end.
FromLine(content, n) ==
    LET ls == splitlines(content)
        before == [m \in 1..(n - 1) |-> ls[m]]
    IN  SubSeq(content, Len(join("\n", before)) + (IF n > 1 THEN 2 ELSE 1), Len(content))

\* The names name such that line n of content declares the field name: the
\* line is blanks, name, an optional "?", and then, after blanks or line
\* breaks, a colon.
SnakeFieldsAt(content, n) ==
    LET line == splitlines(content)[n]
        rest == FromLine(content, n)
        places == {p \in (0..Len(line)) \X (1..Len(line)) :
                      /\ p[1] < p[2]
                      /\ \A i \in 1..p[1] : Ch(line, i) \in {" ", "\t"}
                      /\ Ch(line, p[1] + 1) \in LowerSet
                      /\ IsSnakeName(SubSeq(line, p[1] + 1, p[2]))
                      /\ LET after == SubSeq(rest, p[2] + 1, Len(rest))
                         IN  \/ BlanksThenColon(after)
                             \/ StartsWith(after, "?") /\ BlanksThenColon(Tail(after))}
    IN  {SubSeq(line, p[1] + 1, p[2]) : p \in places}

NamingMessage(k, name) ==
    "Snake_case property '" \o name \o "' in domain file " \o files[k].rel_path

\* One message per declaring line of a domain file, by file and by line.
ExpectedNamingFindings ==
    Flatten([k \in FileIndexes |->
        IF Contains(files[k].rel_path, "domain")
        THEN Flatten([n \in 1..Len(splitlines(files[k].content)) |->
                 LET names == SnakeFieldsAt(files[k].content, n)
                 IN  IF names = {} THEN <<>>
                     ELSE <<NamingMessage(k, CHOOSE name \in names : TRUE)>>])
        ELSE <<>>])

\* C6: the naming verdict is FAIL exactly when a file with "domain" in its
\* relative path has a line declaring a lower-snake-case field; every such
\* line gives one finding naming the field and the file; other files never
\* count.
C6_NamingVerdict ==
    Ran("naming") =>
        /\ MessagesWithPrefix("Snake_case property '") = ExpectedNamingFindings
        /\ stats.naming = IF ExpectedNamingFindings # <<>> THEN "FAIL" ELSE "PASS"

\* A domain file with snake-case fields beside another file that declares
\* them too and is not reported.
C6_Witness ==
    /\ Ran("naming")
    /\ stats.naming = "FAIL"
    /\ \E k \in FileIndexes :
           /\ ~Contains(files[k].rel_path, "domain")
           /\ \E n \in 1..Len(splitlines(files[k].content)) :
                  SnakeFieldsAt(files[k].content, n) # {}

-----------------------------------------------------------------------------
\* C7: a run on a missing or unreadable feature directory ends in a fatal
\* error and writes no report; a report is written only by a run that
\* collected the files and completed every check.
C7_MissingDirectoryIsFatal ==
    /\ dir_state # "present" => docs = NoFile /\ pc # "done"
    /\ docs # NoFile => AllChecksRan /\ files = Scanned(feature_name, tree)

-----------------------------------------------------------------------------
GeneratedLabel == "> **Generated**: "

\* The position of the last character before the date of the "Generated" line.
DateStart(text) == Find(text, GeneratedLabel, 1) + Len(GeneratedLabel) - 1

\* The ten characters of the date (YYYY-MM-DD) of a report.
DateOf(text) == SubSeq(text, DateStart(text) + 1, DateStart(text) + 10)

\* A report with the date of its "Generated" line cut out.
WithoutDate(text) ==
    SubSeq(text, 1, DateStart(text)) \o SubSeq(text, DateStart(text) + 11, Len(text))

-----------------------------------------------------------------------------
CheckRank(check) ==
    CASE check = "naming" -> 1
      [] check = "dependency" -> 2
      [] check = "sacred_mandate" -> 3
      [] check = "performance" -> 4

SubCheckRank(sub) ==
    CASE sub = "integer_cents" -> 1
      [] sub = "soft_deletes" -> 2
      [] sub = "auth_abstraction" -> 3
      [] OTHER -> 0

\* a comes before b, or is b, in the lexicographic order of tuples of numbers
RECURSIVE LexLeq(_, _)
LexLeq(a, b) ==
    \/ a = <<>>
    \/ Head(a) < Head(b)
    \/ Head(a) = Head(b) /\ LexLeq(Tail(a), Tail(b))

CheckFileLine(f) == <<CheckRank(f.check), f.file, f.line>>

CheckSubCheckFileLine(f) ==
    <<CheckRank(f.check), SubCheckRank(f.sub), f.file, f.line>>

\* C9 as stated: the findings list is in check-then-file-then-line order:
\* naming, feature bleed, sacred mandate, performance; within one check by
\* file in traversal order; within one file by line.
C9_CheckFileLineOrder ==
    AllChecksRan =>
        \A i \in 1..(Len(issues) - 1) :
            LexLeq(CheckFileLine(issues[i]), CheckFileLine(issues[i + 1]))

\* C9 amended: the findings list is ordered by check (naming, feature bleed,
\* sacred mandate, performance); the sacred-mandate findings are ordered by
\* sub-check (integer cents, soft deletes, auth abstraction) before file;
\* within one check or sub-check by file in traversal order, and within one
\* file by line.
C9_CheckSubCheckFileLineOrder ==
    AllChecksRan =>
        \A i \in 1..(Len(issues) - 1) :
            LexLeq(CheckSubCheckFileLine(issues[i]), CheckSubCheckFileLine(issues[i + 1]))

\* A sacred-mandate finding of a later file ahead of one of an earlier file.
C9_Witness ==
    /\ AllChecksRan
    /\ \E i \in 1..Len(issues) : \E j \in (i + 1)..Len(issues) :
           /\ issues[i].check = issues[j].check
           /\ issues[i].file > issues[j].file

-----------------------------------------------------------------------------
\* The number of times x occurs in the sequence s
Count(s, x) == Cardinality({i \in 1..Len(s) : s[i] = x})

\* s and t hold the same elements the same number of times
SameMultiset(s, t) ==
    /\ Len(s) = Len(t)
    /\ \A i \in 1..Len(s) : Count(s, s[i]) = Count(t, s[i])

\* The findings of the four checks on self.files, in the order of
\* generate_markdown.
FindingsInOrder ==
    NamingViolations(files) \o FeatureBleed(files, feature_name)
        \o MandateIssues(files, feature_name) \o WatchViolations(files)

Verdict(findings, bad) == IF findings # <<>> THEN bad ELSE "PASS"

\* C10: whatever the order the four checks ran in, the category verdicts, the
\* mandate and performance verdict maps and the feature-bleed list are the
\* ones each check gives on the file set by itself, the findings are the
\* findings of the order of generate_markdown up to their order, and the file
\* set is the scanned one.
C10_OrderOfChecksIsIrrelevant ==
    Len(ran) = 4 =>
        /\ files = Scanned(feature_name, tree)
        /\ stats = [InitStats EXCEPT
               !.naming = Verdict(NamingViolations(files), "FAIL"),
               !.dependency_manifest = Verdict(FeatureBleed(files, feature_name), "FAIL"),
               !.feature_bleed = Messages(FeatureBleed(files, feature_name))]
        /\ mandate_checks = [InitMandateChecks EXCEPT
               !.integer_cents = IF HasFinancial(files)
                                 THEN Verdict(FloatViolations(files), "FAIL")
                                 ELSE "N/A",
               !.soft_deletes = IF HasDelete(files)
                                THEN Verdict(DeleteViolations(files), "WARNING")
                                ELSE "N/A",
               !.auth_abstraction = Verdict(AuthViolations(files, feature_name), "FAIL")]
        /\ performance_checks = [InitPerformanceChecks EXCEPT
               !.react_compiler = Verdict(WatchViolations(files), "FAIL")]
        /\ SameMultiset(issues, FindingsInOrder)

\* The checks ran in another order than generate_markdown's and left the
\* findings in another order.
C10_Witness ==
    /\ Len(ran) = 4
    /\ ran # <<"naming", "dependency", "sacred_mandate", "performance">>
    /\ issues # FindingsInOrder
    /\ performance_checks.react_compiler = "PASS"
    /\ stats.naming = "FAIL"

=============================================================================
